---- MODULE Spec2Model ----
(***************************************************************************)
(* Transaction categorization engine of invoice-extractor/services.py:     *)
(* categorizar_transacoes and _categorizar_transacao_individual.           *)
(*                                                                         *)
(* Python strings are tuples of one-character strings, so that lower(),    *)
(* strip(), split() and the substring test are computed, not assumed.      *)
(* Python's None is the tuple None below, which no string equals.          *)
(***************************************************************************)
EXTENDS Integers, Sequences, FiniteSets, TLC

VARIABLES transacoes, rules, categories, subcategories,
          pc, transacoes_com_regra, transacoes_sem_regra,
          batch_result, categorizacoes_llm, llm_calls, llm_error,
          best_rules, passo2, resultado

vars == <<transacoes, rules, categories, subcategories,
          pc, transacoes_com_regra, transacoes_sem_regra,
          batch_result, categorizacoes_llm, llm_calls, llm_error,
          best_rules, passo2, resultado>>

None == <<"None">>

\* None where the value would otherwise be a record (a dict or an object)
NoneObj == [none |-> TRUE]

\* Python truthiness of an optional string: None and "" are falsy.
Truthy(x) == x # None /\ x # <<>>

(***************************************************************************)
(* Bounds of the model.                                                    *)
(***************************************************************************)
MaxTx == 2
MaxRules == 2
MaxCount == 1
MaxCats == 2
MaxSubs == 2

(***************************************************************************)
(* Generic sequence helpers.                                               *)
(***************************************************************************)
SeqsUpTo(S, n) == UNION {[1..k -> S] : k \in 0..n}

(***************************************************************************)
(* str.lower(), str.strip(), str.split(), " ".join, and `a in b`.          *)
(***************************************************************************)
UpperChars == <<"A","B","C","D","E","F","G","H","I","J","K","L","M",
                "N","O","P","Q","R","S","T","U","V","W","X","Y","Z">>
LowerChars == <<"a","b","c","d","e","f","g","h","i","j","k","l","m",
                "n","o","p","q","r","s","t","u","v","w","x","y","z">>

\* The lowercase letter of each uppercase letter
LowerOf ==
    [c \in {UpperChars[i] : i \in 1..Len(UpperChars)} |->
        LowerChars[CHOOSE i \in 1..Len(UpperChars) : UpperChars[i] = c]]

LowerChar(c) == IF c \in DOMAIN LowerOf THEN LowerOf[c] ELSE c

Lower(s) == [i \in 1..Len(s) |-> LowerChar(s[i])]

IsSpace(c) == c \in {" ", "\t", "\n"}

RECURSIVE Split(_, _, _)
\* str.split(): the maximal runs of non-whitespace of s, from position i on;
\* word is the run being read.
Split(s, i, word) ==
    IF i > Len(s) THEN (IF word = <<>> THEN <<>> ELSE <<word>>)
    ELSE IF IsSpace(s[i])
         THEN (IF word = <<>> THEN <<>> ELSE <<word>>) \o Split(s, i + 1, <<>>)
         ELSE Split(s, i + 1, Append(word, s[i]))

RECURSIVE JoinSpace(_)
JoinSpace(words) ==
    IF words = <<>> THEN <<>>
    ELSE IF Len(words) = 1 THEN words[1]
         ELSE words[1] \o <<" ">> \o JoinSpace(Tail(words))

\* " ".join(texto.lower().strip().split())  (strip is subsumed by split)
_normalizar_texto(texto) == JoinSpace(Split(Lower(texto), 1, <<>>))

\* Python `p in d` for strings
IsSubstring(p, d) ==
    \E i \in 0..(Len(d) - Len(p)) : SubSeq(d, i + 1, i + Len(p)) = p

(***************************************************************************)
(* String literals of the program and of the modelled data.                *)
(***************************************************************************)
Outros == <<"O","u","t","r","o","s">>
SemCategoria == <<"s","e","m"," ","c","a","t","e","g","o","r","i","a">>
Expense == <<"e","x","p","e","n","s","e">>
Income == <<"i","n","c","o","m","e">>
Lazer == <<"L","a","z","e","r">>
Bar == <<"B","a","r">>
IdC1 == <<"c","1">>
IdC2 == <<"c","2">>
IdC9 == <<"c","9">>
IdS1 == <<"s","1">>
IdS2 == <<"s","2">>
IdS9 == <<"s","9">>

(***************************************************************************)
(* Catalog index, services.py lines 89-111.                                *)
(***************************************************************************)
\* {x["id"]: x for x in list}: a later entry overwrites an earlier one
DictById(list) ==
    [k \in {list[i].id : i \in 1..Len(list)} |->
        list[CHOOSE i \in 1..Len(list) :
                /\ list[i].id = k
                /\ \A j \in (i + 1)..Len(list) : list[j].id # k]]

\* {x["name"].lower(): x for x in list}: a later entry overwrites an earlier one
DictByLowerName(list) ==
    [k \in {Lower(list[i].name) : i \in 1..Len(list)} |->
        list[CHOOSE i \in 1..Len(list) :
                /\ Lower(list[i].name) = k
                /\ \A j \in (i + 1)..Len(list) : Lower(list[j].name) # k]]

category_by_id == DictById(categories)
subcategory_by_id == DictById(subcategories)
category_by_name == DictByLowerName(categories)
subcategory_by_name == DictByLowerName(subcategories)

\* Variant: the fallback category is chosen by name alone
IsDefaultCategoryAnyType(cat) == cat.name = Outros

IsDefaultCategory(cat) == cat.name = Outros /\ cat.type = Expense

\* next((cat for cat in categories if ...), None): the first such entry
default_category ==
    IF \E i \in 1..Len(categories) : IsDefaultCategory(categories[i])
    THEN categories[CHOOSE i \in 1..Len(categories) :
                       /\ IsDefaultCategory(categories[i])
                       /\ \A j \in 1..(i - 1) : ~IsDefaultCategory(categories[j])]
    ELSE NoneObj

IsDefaultSubcategory(sub) ==
    /\ sub.name = SemCategoria
    /\ sub.category_template_id = default_category.id

default_subcategory ==
    IF default_category = NoneObj THEN NoneObj
    ELSE IF \E i \in 1..Len(subcategories) : IsDefaultSubcategory(subcategories[i])
         THEN subcategories[CHOOSE i \in 1..Len(subcategories) :
                       /\ IsDefaultSubcategory(subcategories[i])
                       /\ \A j \in 1..(i - 1) : ~IsDefaultSubcategory(subcategories[j])]
         ELSE NoneObj

(***************************************************************************)
(* Rule matching, services.py lines 120-134 and 291-308.                   *)
(***************************************************************************)
\* `if pattern and pattern in descricao_normalizada`
RuleMatches(rule, descricao_normalizada) ==
    /\ Truthy(rule.normalized_pattern)
    /\ IsSubstring(rule.normalized_pattern, descricao_normalizada)

\* tem_regra of the partition loop
tem_regra(transacao) ==
    \E i \in 1..Len(rules) :
        RuleMatches(rules[i], _normalizar_texto(transacao.descricao))

RECURSIVE Particao(_, _)
\* The (idx, transacao) pairs, idx from i on (0-based), whose tem_regra is comRegra
Particao(i, comRegra) ==
    IF i >= Len(transacoes) THEN <<>>
    ELSE IF tem_regra(transacoes[i + 1]) = comRegra
         THEN <<(<<i, transacoes[i + 1]>>)>> \o Particao(i + 1, comRegra)
         ELSE Particao(i + 1, comRegra)

RECURSIVE matching_rules(_, _)
\* The rules from position i on that match, in list order
matching_rules(i, descricao_normalizada) ==
    IF i > Len(rules) THEN <<>>
    ELSE IF RuleMatches(rules[i], descricao_normalizada)
         THEN <<rules[i]>> \o matching_rules(i + 1, descricao_normalizada)
         ELSE matching_rules(i + 1, descricao_normalizada)

\* Variant: usage_count is compared before confirmed_count
SortKeyUsageFirst(r) == <<r.usage_count, r.confirmed_count, Len(r.normalized_pattern)>>

\* The sort key (confirmed_count, usage_count, len(normalized_pattern))
SortKey(r) == <<r.confirmed_count, r.usage_count, Len(r.normalized_pattern)>>

\* Python tuple comparison a < b
TupleLess(a, b) ==
    \/ a[1] < b[1]
    \/ a[1] = b[1] /\ a[2] < b[2]
    \/ a[1] = b[1] /\ a[2] = b[2] /\ a[3] < b[3]

\* r goes after every element whose key is not smaller than its own
InsertDesc(sorted, r) ==
    LET n == Cardinality({k \in 1..Len(sorted) :
                             ~TupleLess(SortKey(sorted[k]), SortKey(r))})
    IN SubSeq(sorted, 1, n) \o <<r>> \o SubSeq(sorted, n + 1, Len(sorted))

RECURSIVE SortDesc(_)
\* list.sort(key=..., reverse=True): descending, equal keys keep their order
SortDesc(list) ==
    IF list = <<>> THEN <<>>
    ELSE InsertDesc(SortDesc(SubSeq(list, 1, Len(list) - 1)), list[Len(list)])

(***************************************************************************)
(* Suggestion batch, services.py lines 136-155.                            *)
(***************************************************************************)
\* Variant: the position is searched by the transaction alone, not by (idx, transacao)
ListIndexByTransacao(list, x) ==
    (CHOOSE k \in 1..Len(list) :
        /\ list[k][2] = x[2]
        /\ \A j \in 1..(k - 1) : list[j][2] # x[2]) - 1

\* list.index(x): 0-based position of the first element equal to x
ListIndex(list, x) ==
    (CHOOSE k \in 1..Len(list) :
        /\ list[k] = x
        /\ \A j \in 1..(k - 1) : list[j] # x) - 1

\* Variant: a later entry with the same index overwrites an earlier one
EntryForLast(par, sem_regra, resp) ==
    LET hits == {k \in 1..Len(resp) : resp[k].index = ListIndex(sem_regra, par)}
    IN IF hits = {} THEN NoneObj
       ELSE resp[CHOOSE k \in hits : \A j \in hits : k >= j]

\* The inner loop of lines 149-153: the first entry whose index is the position
\* of (idx, transacao) in transacoes_sem_regra
EntryFor(par, sem_regra, resp) ==
    LET hits == {k \in 1..Len(resp) : resp[k].index = ListIndex(sem_regra, par)}
    IN IF hits = {} THEN NoneObj
       ELSE resp[CHOOSE k \in hits : \A j \in hits : k <= j]

\* categorizacoes_llm after the loop of lines 147-153
Remap(sem_regra, resp) ==
    LET keys == {sem_regra[k][1] : k \in {j \in 1..Len(sem_regra) :
                                     EntryFor(sem_regra[j], sem_regra, resp) # NoneObj}}
    IN [idx \in keys |->
          EntryFor(sem_regra[CHOOSE j \in 1..Len(sem_regra) : sem_regra[j][1] = idx],
                   sem_regra, resp)]

(***************************************************************************)
(* _categorizar_transacao_individual, services.py lines 265-379.           *)
(***************************************************************************)
NoFields ==
    [category_id |-> None, category_name |-> None,
     subcategory_id |-> None, subcategory_name |-> None]

\* lines 362-369 (PASSO 3)
AplicarFallback(f) ==
    LET useCat == ~Truthy(f.category_id) /\ default_category # NoneObj
        useSub == ~Truthy(f.subcategory_id) /\ default_subcategory # NoneObj
    IN [category_id |-> IF useCat THEN default_category.id ELSE f.category_id,
        category_name |-> IF useCat THEN default_category.name ELSE f.category_name,
        subcategory_id |-> IF useSub THEN default_subcategory.id ELSE f.subcategory_id,
        subcategory_name |-> IF useSub THEN default_subcategory.name
                             ELSE f.subcategory_name]

\* best_rule = matching_rules[0] after the sort, None when no rule matches
BestRule(transacao) ==
    LET m == SortDesc(matching_rules(1, _normalizar_texto(transacao.descricao)))
    IN IF m = <<>> THEN NoneObj ELSE m[1]

\* Variant: a field the rule leaves unresolved falls through to the defaults
AplicarRegraComFallback(best_rule) ==
    LET cat_id == best_rule.category_template_id
        subcat_id == best_rule.subcategory_template_id
        catOk == Truthy(cat_id) /\ cat_id \in DOMAIN category_by_id
        subOk == Truthy(subcat_id) /\ subcat_id \in DOMAIN subcategory_by_id
    IN AplicarFallback(
         [category_id |-> IF catOk THEN category_by_id[cat_id].id ELSE None,
          category_name |-> IF catOk THEN category_by_id[cat_id].name ELSE None,
          subcategory_id |-> IF subOk THEN subcategory_by_id[subcat_id].id ELSE None,
          subcategory_name |-> IF subOk THEN subcategory_by_id[subcat_id].name
                               ELSE None])

\* lines 317-330
AplicarRegra(best_rule) ==
    LET cat_id == best_rule.category_template_id
        subcat_id == best_rule.subcategory_template_id
        catOk == Truthy(cat_id) /\ cat_id \in DOMAIN category_by_id
        subOk == Truthy(subcat_id) /\ subcat_id \in DOMAIN subcategory_by_id
    IN [category_id |-> IF catOk THEN category_by_id[cat_id].id ELSE None,
        category_name |-> IF catOk THEN category_by_id[cat_id].name ELSE None,
        subcategory_id |-> IF subOk THEN subcategory_by_id[subcat_id].id ELSE None,
        subcategory_name |-> IF subOk THEN subcategory_by_id[subcat_id].name ELSE None]

\* Variant: the last subcategory of the category with that name is taken
matching_subcat_last(category_id, subcat_nome_lower) ==
    LET hits == {k \in 1..Len(subcategories) :
                    /\ subcategories[k].category_template_id = category_id
                    /\ Lower(subcategories[k].name) = subcat_nome_lower}
    IN IF hits = {} THEN NoneObj
       ELSE subcategories[CHOOSE k \in hits : \A j \in hits : k >= j]

\* Variant: the subcategory is looked up by name in the whole catalog
matching_subcat_any_category(category_id, subcat_nome_lower) ==
    IF subcat_nome_lower \in DOMAIN subcategory_by_name
    THEN subcategory_by_name[subcat_nome_lower]
    ELSE NoneObj

\* lines 348-357: the first subcategory of the category with that lowercased name
matching_subcat(category_id, subcat_nome_lower) ==
    LET hits == {k \in 1..Len(subcategories) :
                    /\ subcategories[k].category_template_id = category_id
                    /\ Lower(subcategories[k].name) = subcat_nome_lower}
    IN IF hits = {} THEN NoneObj
       ELSE subcategories[CHOOSE k \in hits : \A j \in hits : k <= j]

\* lines 333-360 (PASSO 2)
AplicarLLM(transacao_idx, llm) ==
    IF transacao_idx \notin DOMAIN llm THEN NoFields
    ELSE LET categoria_llm == llm[transacao_idx]
         IN IF ~Truthy(categoria_llm.categoria) THEN NoFields
            ELSE IF Lower(categoria_llm.categoria) \notin DOMAIN category_by_name
                 THEN NoFields
                 ELSE LET category == category_by_name[Lower(categoria_llm.categoria)]
                          sub == IF Truthy(categoria_llm.subcategoria)
                                 THEN matching_subcat(category.id,
                                                      Lower(categoria_llm.subcategoria))
                                 ELSE NoneObj
                      IN [category_id |-> category.id,
                          category_name |-> category.name,
                          subcategory_id |-> IF sub = NoneObj THEN None ELSE sub.id,
                          subcategory_name |-> IF sub = NoneObj THEN None ELSE sub.name]

\* The four resolved fields of one transaction
Resolver(transacao, transacao_idx, llm) ==
    IF BestRule(transacao) # NoneObj
    THEN AplicarRegra(BestRule(transacao))
    ELSE AplicarFallback(AplicarLLM(transacao_idx, llm))

\* lines 371-379
TransacaoCategorizada(transacao, f) ==
    [date |-> transacao.data,
     description |-> transacao.descricao,
     amount |-> transacao.valor,
     category_name |-> f.category_name,
     category_id |-> f.category_id,
     subcategory_name |-> f.subcategory_name,
     subcategory_id |-> f.subcategory_id]

(***************************************************************************)
(* Input data of the model.                                                *)
(***************************************************************************)
Data1 == <<"2","0","2","4","-","0","1","-","0","2">>
BRL == <<"B","R","L">>
DescUber == <<"U","B","E","R"," "," ","T","r","i","p">>
DescBar == <<" ","B","a","r">>

TxUber == [data |-> Data1, descricao |-> DescUber, valor |-> 2550, moeda |-> BRL]
TxBar == [data |-> Data1, descricao |-> DescBar, valor |-> 2550, moeda |-> BRL]
TxUniverse == {TxUber, TxBar}

PatUber == <<"u","b","e","r">>
PatUberTrip == <<"u","b","e","r"," ","t","r","i","p">>
PatPix == <<"p","i","x">>

Rule(p, c, s, cc, uc) ==
    [normalized_pattern |-> p, category_template_id |-> c,
     subcategory_template_id |-> s, confirmed_count |-> cc, usage_count |-> uc]

CatOutros == [id |-> IdC1, name |-> Outros, type |-> Expense]
CatLazer == [id |-> IdC2, name |-> Lazer, type |-> Expense]
CatOutrosIncome == [id |-> IdC2, name |-> Outros, type |-> Income]
CatOUTROS == [id |-> IdC1, name |-> <<"O","U","T","R","O","S">>, type |-> Expense]
CategoryUniverse == {CatOutros, CatLazer, CatOutrosIncome, CatOUTROS}

SubSem == [id |-> IdS1, name |-> SemCategoria, category_template_id |-> IdC1]
SubBar == [id |-> IdS2, name |-> Bar, category_template_id |-> IdC2]
SubBARc1 == [id |-> IdS1, name |-> <<"B","A","R">>, category_template_id |-> IdC1]
SubSemC2 == [id |-> IdS2, name |-> SemCategoria, category_template_id |-> IdC2]
SubcategoryUniverse == {SubSem, SubBar, SubBARc1, SubSemC2}

\* What the suggestion service may answer for one transaction
Sugestoes ==
    { [categoria |-> <<"L","A","Z","E","R">>, subcategoria |-> None],
      [categoria |-> <<"l","a","z","e","r">>, subcategoria |-> <<"b","a","r">>],
      [categoria |-> <<"o","u","t","r","o","s">>, subcategoria |-> None],
      [categoria |-> None, subcategoria |-> <<"b","a","r">>] }

\* The entries of a response to a batch of n transactions; index n is out of range
CategorizacaoLLM(n) ==
    { [index |-> i, categoria |-> g.categoria, subcategoria |-> g.subcategoria] :
        i \in 0..n, g \in Sugestoes }

\* ResultadoCategorizacaoBatch.transacoes for a batch of n transactions
ResultadoCategorizacaoBatch(n) == SeqsUpTo(CategorizacaoLLM(n), n)

(***************************************************************************)
(* categorizar_transacoes, services.py lines 47-175.                       *)
(***************************************************************************)
\* Variant: the service is called whatever the batch
PrecisaLLMSempre(sem_regra) == TRUE

\* `if transacoes_sem_regra:` of line 138
PrecisaLLM(sem_regra) == sem_regra # <<>>

\* Variant: the error of the service call propagates to the caller
AposErroLLMPropaga == "raised"

\* Where control goes after the except clause of lines 154-155
AposErroLLM == "resolver"

\* The state once the arguments are bound and the three queries have answered
InitWith(TxLists, RuleLists, CatLists, SubLists) ==
    /\ transacoes \in TxLists
    /\ rules \in RuleLists
    /\ categories \in CatLists
    /\ subcategories \in SubLists
    /\ pc = "particionar"
    /\ transacoes_com_regra = <<>>
    /\ transacoes_sem_regra = <<>>
    /\ batch_result = <<>>
    /\ categorizacoes_llm = <<>>
    /\ llm_calls = 0
    /\ llm_error = FALSE
    /\ best_rules = <<>>
    /\ passo2 = <<>>
    /\ resultado = <<>>

\* lines 117-134
Particionar ==
    /\ pc = "particionar"
    /\ transacoes_com_regra' = Particao(0, TRUE)
    /\ transacoes_sem_regra' = Particao(0, FALSE)
    /\ pc' = "batch"
    /\ UNCHANGED <<transacoes, rules, categories, subcategories, batch_result,
                   categorizacoes_llm, llm_calls, llm_error, best_rules, passo2,
                   resultado>>

\* lines 137-138 when no transaction needs the suggestion service
SemBatch ==
    /\ pc = "batch"
    /\ ~PrecisaLLM(transacoes_sem_regra)
    /\ categorizacoes_llm' = <<>>
    /\ pc' = "resolver"
    /\ UNCHANGED <<transacoes, rules, categories, subcategories,
                   transacoes_com_regra, transacoes_sem_regra, batch_result,
                   llm_calls, llm_error, best_rules, passo2, resultado>>

\* lines 139-153: the service answers and the answer is remapped
LLMResponde ==
    /\ pc = "batch"
    /\ PrecisaLLM(transacoes_sem_regra)
    /\ \E resp \in ResultadoCategorizacaoBatch(Len(transacoes_sem_regra)) :
          /\ batch_result' = resp
          /\ categorizacoes_llm' = Remap(transacoes_sem_regra, resp)
    /\ llm_calls' = llm_calls + 1
    /\ pc' = "resolver"
    /\ UNCHANGED <<transacoes, rules, categories, subcategories,
                   transacoes_com_regra, transacoes_sem_regra, llm_error,
                   best_rules, passo2, resultado>>

\* lines 139-145, 154-155: the service call raises
LLMFalha ==
    /\ pc = "batch"
    /\ PrecisaLLM(transacoes_sem_regra)
    /\ llm_calls' = llm_calls + 1
    /\ llm_error' = TRUE
    /\ categorizacoes_llm' = <<>>
    /\ pc' = AposErroLLM
    /\ UNCHANGED <<transacoes, rules, categories, subcategories,
                   transacoes_com_regra, transacoes_sem_regra, batch_result,
                   best_rules, passo2, resultado>>

\* lines 159-173: one iteration of the final loop
CategorizarIndividual ==
    /\ pc = "resolver"
    /\ Len(resultado) < Len(transacoes)
    /\ LET idx == Len(resultado)
           transacao == transacoes[idx + 1]
       IN /\ resultado' = Append(resultado,
                 TransacaoCategorizada(transacao,
                     Resolver(transacao, idx, categorizacoes_llm)))
          /\ best_rules' = Append(best_rules, BestRule(transacao))
          /\ passo2' = Append(passo2,
                 IF BestRule(transacao) # NoneObj THEN NoneObj
                 ELSE AplicarLLM(idx, categorizacoes_llm))
    /\ UNCHANGED <<transacoes, rules, categories, subcategories, pc,
                   transacoes_com_regra, transacoes_sem_regra, batch_result,
                   categorizacoes_llm, llm_calls, llm_error>>

\* line 175
Retornar ==
    /\ pc = "resolver"
    /\ Len(resultado) = Len(transacoes)
    /\ pc' = "done"
    /\ UNCHANGED <<transacoes, rules, categories, subcategories,
                   transacoes_com_regra, transacoes_sem_regra, batch_result,
                   categorizacoes_llm, llm_calls, llm_error, best_rules, passo2,
                   resultado>>

Next ==
    \/ Particionar
    \/ SemBatch
    \/ LLMResponde
    \/ LLMFalha
    \/ CategorizarIndividual
    \/ Retornar

(***************************************************************************)
(* Specifications.  They share Next and differ in the inputs they draw.    *)
(***************************************************************************)
RuleUberC1S2 == Rule(PatUber, IdC1, IdS2, 1, 0)
RuleUberAbsent == Rule(PatUber, IdC9, IdS9, 0, 0)
RuleUberNone == Rule(PatUber, None, None, 0, 0)
RuleEmpty == Rule(<<>>, IdC1, IdS1, 1, 1)

\* Catalogs are exhaustive up to MaxCats/MaxSubs entries
InitCatalog ==
    InitWith({<<TxUber>>, <<TxBar>>, <<TxUber, TxBar>>},
             {<<RuleUberC1S2>>},
             SeqsUpTo(CategoryUniverse, MaxCats),
             SeqsUpTo(SubcategoryUniverse, MaxSubs))

SpecCatalog == InitCatalog /\ [][Next]_vars

\* Transaction lists are exhaustive up to MaxTx entries
InitBatch ==
    InitWith(SeqsUpTo(TxUniverse, MaxTx),
             {<<>>, <<RuleUberC1S2>>, <<RuleEmpty, RuleUberAbsent>>, <<RuleUberNone>>},
             {<<CatOutros, CatLazer>>},
             {<<SubSem, SubBar>>})

SpecBatch == InitBatch /\ [][Next]_vars

RulePix == Rule(PatPix, IdC1, IdS1, 1, 1)

\* Every rule over two matching patterns, the counts 0..MaxCount and two targets,
\* plus a rule with an empty pattern and a rule that matches no description
RuleUniverse ==
    { Rule(p, t[1], t[2], cc, uc) :
        p \in {PatUber, PatUberTrip}, t \in {<<IdC1, IdS1>>, <<IdC2, IdS2>>},
        cc \in 0..MaxCount, uc \in 0..MaxCount }
    \cup {RuleEmpty, RulePix}

\* Rule lists are exhaustive up to MaxRules entries
InitRules ==
    InitWith({<<TxUber>>},
             SeqsUpTo(RuleUniverse, MaxRules),
             {<<CatOutros, CatLazer>>},
             {<<SubSem, SubBar>>})

SpecRules == InitRules /\ [][Next]_vars

RuleUberC2S2 == Rule(PatUber, IdC2, IdS2, 1, 0)
CatLAZERc1 == [id |-> IdC1, name |-> <<"L","A","Z","E","R">>, type |-> Expense]
SubBARc2 == [id |-> IdS1, name |-> <<"B","A","R">>, category_template_id |-> IdC2]

\* Catalog entries that share ids and lowercased names
DuplicateCategories == {CatLazer, CatLAZERc1, CatOutrosIncome}
DuplicateSubcategories == {SubBar, SubBARc2, SubSemC2, SubBARc1}

\* Catalogs with duplicates, exhaustive up to MaxCats/MaxSubs entries
InitDuplicates ==
    InitWith({<<TxUber>>, <<TxBar>>},
             {<<RuleUberC2S2>>},
             SeqsUpTo(DuplicateCategories, MaxCats),
             SeqsUpTo(DuplicateSubcategories, MaxSubs))

SpecDuplicates == InitDuplicates /\ [][Next]_vars

(***************************************************************************)
(* Properties.  The helpers below restate what a property expects directly *)
(* over the inputs, without the operators of the program above.            *)
(***************************************************************************)
\* Some rule has a non-empty pattern that is a substring of the normalized description
HasPattern(t) ==
    \E k \in 1..Len(rules) :
        /\ rules[k].normalized_pattern \notin {None, <<>>}
        /\ IsSubstring(rules[k].normalized_pattern, _normalizar_texto(t.descricao))

\* (outId, outName) are those of the catalog entry found under id, or both null
\* when id is missing or not in the catalog
FieldsById(list, id, outId, outName) ==
    IF id \notin {None, <<>>} /\ \E k \in 1..Len(list) : list[k].id = id
    THEN \E k \in 1..Len(list) :
            /\ list[k].id = id
            /\ \A j \in (k + 1)..Len(list) : list[j].id # id
            /\ outId = list[k].id
            /\ outName = list[k].name
    ELSE outId = None /\ outName = None

\* Positions of the catalog categories named exactly "Outros" with type "expense"
OutrosAt == {k \in 1..Len(categories) :
               categories[k].name = Outros /\ categories[k].type = Expense}

\* Positions of the subcategories named exactly "sem categoria" under category cid
SemCategoriaAt(cid) ==
    {k \in 1..Len(subcategories) :
        /\ subcategories[k].name = SemCategoria
        /\ subcategories[k].category_template_id = cid}

\* o carries the default category, or null category fields when there is none
HasDefaultCategory(o) ==
    IF OutrosAt = {} THEN o.category_id = None /\ o.category_name = None
    ELSE \E k \in OutrosAt :
            /\ \A j \in OutrosAt : k <= j
            /\ o.category_id = categories[k].id
            /\ o.category_name = categories[k].name

\* o carries the default subcategory, or null subcategory fields when there is none
HasDefaultSubcategory(o) ==
    IF OutrosAt = {} THEN o.subcategory_id = None /\ o.subcategory_name = None
    ELSE \E k \in OutrosAt :
            /\ \A j \in OutrosAt : k <= j
            /\ LET at == SemCategoriaAt(categories[k].id)
               IN IF at = {} THEN o.subcategory_id = None /\ o.subcategory_name = None
                  ELSE \E m \in at :
                          /\ \A j \in at : m <= j
                          /\ o.subcategory_id = subcategories[m].id
                          /\ o.subcategory_name = subcategories[m].name

\* o is resolved from the rule r alone
ResolvedFromRule(r, o) ==
    /\ FieldsById(categories, r.category_template_id, o.category_id, o.category_name)
    /\ FieldsById(subcategories, r.subcategory_template_id,
                  o.subcategory_id, o.subcategory_name)

\* C1: every emitted non-null subcategory_id is that of a catalog subcategory whose
\* category_template_id equals the emitted category_id, on every resolution path.
C1_SubcategoryBelongsToCategory ==
    \A i \in 1..Len(resultado) :
        resultado[i].subcategory_id # None =>
            \E k \in 1..Len(subcategories) :
                /\ subcategories[k].id = resultado[i].subcategory_id
                /\ subcategories[k].category_template_id = resultado[i].category_id

\* C2: a transaction with a matching rule is resolved from its best rule alone: each
\* field is the catalog entry under the rule's id, or null; no suggestion and no
\* default is consulted.
C2_RuleDecidesResult ==
    \A i \in 1..Len(resultado) :
        HasPattern(transacoes[i]) =>
            /\ best_rules[i] # NoneObj
            /\ passo2[i] = NoneObj
            /\ (i - 1) \notin DOMAIN categorizacoes_llm
            /\ ResolvedFromRule(best_rules[i], resultado[i])

C2_Witness ==
    /\ pc = "done"
    /\ Len(transacoes) = 2
    /\ HasPattern(transacoes[1])
    /\ best_rules[1].category_template_id = IdC9
    /\ resultado[1].category_id = None
    /\ resultado[1].subcategory_id = None
    /\ 1 \in DOMAIN categorizacoes_llm
    /\ resultado[2].category_id = IdC2
    /\ OutrosAt # {}

\* r's tuple (confirmed_count, usage_count, len(pattern)) is greater than q's
Outranks(r, q) ==
    \/ r.confirmed_count > q.confirmed_count
    \/ /\ r.confirmed_count = q.confirmed_count
       /\ r.usage_count > q.usage_count
    \/ /\ r.confirmed_count = q.confirmed_count
       /\ r.usage_count = q.usage_count
       /\ Len(r.normalized_pattern) > Len(q.normalized_pattern)

\* Positions of the rules that match transaction t
MatchesAt(t) ==
    {k \in 1..Len(rules) :
        /\ rules[k].normalized_pattern \notin {None, <<>>}
        /\ IsSubstring(rules[k].normalized_pattern, _normalizar_texto(t.descricao))}

\* C3: the rule applied is the matching rule with the greatest tuple
\* (confirmed_count, usage_count, len(pattern)); among equal tuples, the earliest
\* in the rule list.
C3_BestRuleByPriority ==
    \A i \in 1..Len(resultado) :
        LET M == MatchesAt(transacoes[i])
        IN IF M = {} THEN best_rules[i] = NoneObj
           ELSE \E p \in M :
                   /\ \A q \in M : ~Outranks(rules[q], rules[p])
                   /\ \A q \in M : q < p => Outranks(rules[p], rules[q])
                   /\ best_rules[i] = rules[p]
                   /\ ResolvedFromRule(rules[p], resultado[i])

C3_Witness ==
    /\ pc = "done"
    /\ Len(rules) = 2
    /\ MatchesAt(transacoes[1]) = {1, 2}
    /\ rules[2].confirmed_count > rules[1].confirmed_count
    /\ rules[2].usage_count < rules[1].usage_count
    /\ Len(rules[2].normalized_pattern) < Len(rules[1].normalized_pattern)
    /\ best_rules[1] = rules[2]
    /\ resultado[1].category_id = rules[2].category_template_id
    /\ rules[1].category_template_id # rules[2].category_template_id

\* C4: when the suggestion service raises, the call does not raise and returns one
\* record per transaction; unmatched transactions carry the defaults (null where
\* absent) and matched ones are resolved from their rule.
C4_LLMErrorFallsBackToDefault ==
    /\ pc \in {"particionar", "batch", "resolver", "done"}
    /\ llm_error => pc \in {"resolver", "done"}
    /\ (llm_error /\ pc = "done") =>
          /\ Len(resultado) = Len(transacoes)
          /\ \A i \in 1..Len(transacoes) :
                /\ resultado[i].description = transacoes[i].descricao
                /\ IF HasPattern(transacoes[i])
                   THEN ResolvedFromRule(best_rules[i], resultado[i])
                   ELSE /\ HasDefaultCategory(resultado[i])
                        /\ HasDefaultSubcategory(resultado[i])

C4_Witness ==
    /\ pc = "done"
    /\ llm_error
    /\ Len(transacoes) = 2
    /\ HasPattern(transacoes[1])
    /\ resultado[1].category_id = IdC1
    /\ ~HasPattern(transacoes[2])
    /\ resultado[2].category_id = IdC1
    /\ resultado[2].subcategory_id = IdS1
    /\ resultado[2].subcategory_name = SemCategoria

\* C5: the suggestion service is called at most once per invocation: never before
\* the partition is known, zero times when every transaction has a matching rule
\* or the list is empty, exactly once otherwise, also when the call failed.
C5_AtMostOneLLMCall ==
    /\ llm_calls <= 1
    /\ pc \in {"particionar", "batch"} => llm_calls = 0
    /\ pc \in {"resolver", "done"} =>
          llm_calls = IF \E i \in 1..Len(transacoes) : ~HasPattern(transacoes[i])
                      THEN 1 ELSE 0
    /\ llm_error => llm_calls = 1

C5_Witness ==
    /\ pc = "done"
    /\ llm_error
    /\ llm_calls = 1
    /\ Len(transacoes) = 2
    /\ \A i \in 1..2 : ~HasPattern(transacoes[i])

\* Number of transactions before original index idx (0-based) with no matching rule
UnmatchedBefore(idx) ==
    Cardinality({j \in 1..idx : ~HasPattern(transacoes[j])})

\* C6: the batch holds exactly the unmatched transactions in original order with
\* their original index, and the first response entry tagged with batch index k is
\* stored under the original index of the k-th unmatched transaction; matched
\* transactions receive nothing; equal transactions are kept apart.
C6_PartitionRemapPreservePositions ==
    pc \in {"batch", "resolver", "done"} =>
        /\ Len(transacoes_sem_regra) =
              Cardinality({j \in 1..Len(transacoes) : ~HasPattern(transacoes[j])})
        /\ \A k \in 1..Len(transacoes_sem_regra) :
              LET idx == transacoes_sem_regra[k][1]
              IN /\ idx \in 0..(Len(transacoes) - 1)
                 /\ transacoes_sem_regra[k][2] = transacoes[idx + 1]
                 /\ ~HasPattern(transacoes[idx + 1])
                 /\ UnmatchedBefore(idx) = k - 1
        /\ (pc # "batch" /\ ~llm_error) =>
              \A idx \in 0..(Len(transacoes) - 1) :
                 LET hits == {m \in 1..Len(batch_result) :
                                 batch_result[m].index = UnmatchedBefore(idx)}
                 IN IF HasPattern(transacoes[idx + 1]) \/ hits = {}
                    THEN idx \notin DOMAIN categorizacoes_llm
                    ELSE /\ idx \in DOMAIN categorizacoes_llm
                         /\ \E m \in hits :
                               /\ \A j \in hits : m <= j
                               /\ categorizacoes_llm[idx] = batch_result[m]

C6_Witness ==
    /\ pc = "done"
    /\ Len(transacoes) = 2
    /\ transacoes[1] = transacoes[2]
    /\ DOMAIN categorizacoes_llm = {0, 1}
    /\ categorizacoes_llm[0].index = 0
    /\ categorizacoes_llm[1].index = 1
    /\ categorizacoes_llm[0].categoria # categorizacoes_llm[1].categoria
    /\ resultado[1].category_id # resultado[2].category_id

\* The suggestion stored for the transaction at position i of transacoes
SuggestionOf(i) == categorizacoes_llm[i - 1]

\* Positions of the catalog categories whose lowercased name is that of name
NamedAt(name) ==
    {k \in 1..Len(categories) : Lower(categories[k].name) = Lower(name)}

\* C7: an unmatched transaction whose suggestion names a catalog category other
\* than the default one and no subcategory keeps a null subcategory, although the
\* default subcategory exists under the default category.
C7_DefaultSubcategoryDoesNotLeak ==
    \A i \in 1..Len(resultado) :
        ( /\ ~HasPattern(transacoes[i])
          /\ (i - 1) \in DOMAIN categorizacoes_llm
          /\ SuggestionOf(i).categoria \notin {None, <<>>}
          /\ SuggestionOf(i).subcategoria = None
          /\ NamedAt(SuggestionOf(i).categoria) # {}
          /\ OutrosAt # {}
          /\ \A k \in NamedAt(SuggestionOf(i).categoria) :
                \A d \in OutrosAt : categories[k].id # categories[d].id
          /\ \E d \in OutrosAt : SemCategoriaAt(categories[d].id) # {} )
        => /\ Lower(resultado[i].category_name) = Lower(SuggestionOf(i).categoria)
           /\ resultado[i].subcategory_id = None
           /\ resultado[i].subcategory_name = None

\* C8: an unmatched transaction with no entry in the suggestion mapping carries the
\* default category (the first "Outros"/"expense" category) and the default
\* subcategory ("sem categoria" under it), each null when absent.
C8_DefaultFallback ==
    \A i \in 1..Len(resultado) :
        (~HasPattern(transacoes[i]) /\ (i - 1) \notin DOMAIN categorizacoes_llm)
        => /\ HasDefaultCategory(resultado[i])
           /\ HasDefaultSubcategory(resultado[i])

C8_Witness ==
    /\ pc = "done"
    /\ Len(transacoes) = 1
    /\ ~HasPattern(transacoes[1])
    /\ llm_calls = 1
    /\ ~llm_error
    /\ Len(batch_result) = 1
    /\ DOMAIN categorizacoes_llm = {}
    /\ Len(categories) = 2
    /\ categories[1].name # Outros
    /\ resultado[1].category_id = IdC1
    /\ resultado[1].category_name = Outros
    /\ resultado[1].subcategory_id = IdS1
    /\ resultado[1].subcategory_name = SemCategoria

\* C9: on the suggestion path a category is applied only if its name equals,
\* case-insensitively, that of a catalog category (otherwise the transaction is
\* resolved as without suggestion), and a subcategory only if a catalog
\* subcategory of that name belongs to the applied category.
C9_SuggestionValidatedAgainstCatalog ==
    \A i \in 1..Len(resultado) :
        (~HasPattern(transacoes[i]) /\ (i - 1) \in DOMAIN categorizacoes_llm) =>
            LET sug == SuggestionOf(i)
                p == passo2[i]
                o == resultado[i]
            IN IF sug.categoria \notin {None, <<>>} /\ NamedAt(sug.categoria) # {}
               THEN /\ \E k \in NamedAt(sug.categoria) :
                          /\ p.category_id = categories[k].id
                          /\ p.category_name = categories[k].name
                    /\ o.category_id = p.category_id
                    /\ o.category_name = p.category_name
                    /\ p.subcategory_id # None =>
                          /\ sug.subcategoria \notin {None, <<>>}
                          /\ \E m \in 1..Len(subcategories) :
                                /\ subcategories[m].id = p.subcategory_id
                                /\ subcategories[m].name = p.subcategory_name
                                /\ Lower(subcategories[m].name) =
                                      Lower(sug.subcategoria)
                                /\ subcategories[m].category_template_id =
                                      p.category_id
                          /\ o.subcategory_id = p.subcategory_id
                          /\ o.subcategory_name = p.subcategory_name
               ELSE /\ p = NoFields
                    /\ HasDefaultCategory(o)
                    /\ HasDefaultSubcategory(o)

C9_Witness ==
    /\ pc = "done"
    /\ Len(transacoes) = 1
    /\ 0 \in DOMAIN categorizacoes_llm
    /\ categorizacoes_llm[0].subcategoria = <<"b","a","r">>
    /\ passo2[1].category_id = IdC2
    /\ passo2[1].category_name = Lazer
    /\ passo2[1].subcategory_id = None
    /\ \E m \in 1..Len(subcategories) :
          /\ Lower(subcategories[m].name) = <<"b","a","r">>
          /\ subcategories[m].category_template_id # IdC2

\* C10: with an absent catalog (no categories and no subcategories) the call fails
\* instead of returning records.
C10_AbsentCatalogFailsCall ==
    (categories = <<>> /\ subcategories = <<>>) => pc # "done"

\* Number of transactions with no matching rule: the size of the batch
BatchSize == Cardinality({j \in 1..Len(transacoes) : ~HasPattern(transacoes[j])})

\* The response omits a batch index, repeats one, or carries one outside 0..n-1
Unusable(resp) ==
    \/ \E k \in 0..(BatchSize - 1) : \A m \in 1..Len(resp) : resp[m].index # k
    \/ \E m, j \in 1..Len(resp) : m # j /\ resp[m].index = resp[j].index
    \/ \E m \in 1..Len(resp) : resp[m].index \notin 0..(BatchSize - 1)

\* C11: a response that omits batch indices, repeats one or carries indices out
\* of range does not make the call raise; an unmatched transaction whose batch
\* index is absent gets the defaults, an out-of-range entry reaches no
\* transaction, and a repeated index is served by its first entry.
C11_UnusableResponseDegrades ==
    (pc \in {"resolver", "done"} /\ llm_calls = 1 /\ ~llm_error
       /\ Unusable(batch_result)) =>
        /\ pc = "done" => Len(resultado) = Len(transacoes)
        /\ Cardinality(DOMAIN categorizacoes_llm) <=
              Cardinality({m \in 1..Len(batch_result) :
                              batch_result[m].index \in 0..(BatchSize - 1)})
        /\ \A idx \in 0..(Len(transacoes) - 1) :
              LET k == UnmatchedBefore(idx)
                  first == {m \in 1..Len(batch_result) :
                              /\ batch_result[m].index = k
                              /\ \A j \in 1..(m - 1) : batch_result[j].index # k}
              IN IF HasPattern(transacoes[idx + 1]) THEN
                     idx \notin DOMAIN categorizacoes_llm
                 ELSE IF first = {} THEN
                     /\ idx \notin DOMAIN categorizacoes_llm
                     /\ idx + 1 <= Len(resultado) =>
                           /\ HasDefaultCategory(resultado[idx + 1])
                           /\ HasDefaultSubcategory(resultado[idx + 1])
                 ELSE
                     /\ idx \in DOMAIN categorizacoes_llm
                     /\ \A m \in first : categorizacoes_llm[idx] = batch_result[m]

C11_Witness ==
    /\ pc = "done"
    /\ ~llm_error
    /\ Len(transacoes) = 2
    /\ BatchSize = 2
    /\ Len(batch_result) = 2
    /\ batch_result[1].index = 0
    /\ batch_result[2].index = 0
    /\ batch_result[1].categoria # batch_result[2].categoria
    /\ categorizacoes_llm[0] = batch_result[1]
    /\ DOMAIN categorizacoes_llm = {0}
    /\ resultado[1].category_id = IdC2
    /\ resultado[2].category_id = IdC1
    /\ resultado[2].subcategory_id = IdS1

\* Positions of the subcategories of category cid whose lowercased name is that
\* of name
SubNamedAt(cid, name) ==
    {m \in 1..Len(subcategories) :
        /\ subcategories[m].category_template_id = cid
        /\ Lower(subcategories[m].name) = Lower(name)}

\* Every lookup of the resolver takes the last of the catalog entries that share
\* the key; the lookup of a suggested subcategory name takes the last one when
\* lastSub holds and the first one otherwise
DuplicatesResolved(lastSub) ==
    \A i \in 1..Len(resultado) :
        IF HasPattern(transacoes[i])
        THEN ResolvedFromRule(best_rules[i], resultado[i])
        ELSE ( /\ (i - 1) \in DOMAIN categorizacoes_llm
               /\ SuggestionOf(i).categoria \notin {None, <<>>}
               /\ NamedAt(SuggestionOf(i).categoria) # {} ) =>
             \E kc \in NamedAt(SuggestionOf(i).categoria) :
                /\ \A j \in NamedAt(SuggestionOf(i).categoria) : j <= kc
                /\ passo2[i].category_id = categories[kc].id
                /\ passo2[i].category_name = categories[kc].name
                /\ LET hits == IF SuggestionOf(i).subcategoria \in {None, <<>>}
                               THEN {}
                               ELSE SubNamedAt(categories[kc].id,
                                               SuggestionOf(i).subcategoria)
                   IN hits # {} =>
                         \E m \in hits :
                            /\ \A j \in hits : IF lastSub THEN j <= m ELSE m <= j
                            /\ passo2[i].subcategory_id = subcategories[m].id
                            /\ passo2[i].subcategory_name = subcategories[m].name
                            /\ resultado[i].subcategory_id = subcategories[m].id

\* C12 as stated: with duplicates in the catalog the last entry wins for every
\* lookup: rule ids, suggested category names and suggested subcategory names.
C12_LastEntryWins == DuplicatesResolved(TRUE)

\* C12 as amended: the last entry wins for rule ids and suggested category names;
\* of two subcategories of the matched category sharing the suggested name, the
\* first in the catalog list is applied.
C12_LastWinsExceptSubcategoryName == DuplicatesResolved(FALSE)

C12_Witness ==
    /\ pc = "done"
    /\ ~HasPattern(transacoes[1])
    /\ 0 \in DOMAIN categorizacoes_llm
    /\ Len(categories) = 2
    /\ Lower(categories[1].name) = Lower(categories[2].name)
    /\ categories[1].id # categories[2].id
    /\ passo2[1].category_id = categories[2].id
    /\ Len(subcategories) = 2
    /\ SubNamedAt(categories[2].id, categorizacoes_llm[0].subcategoria) = {1, 2}
    /\ subcategories[1].id # subcategories[2].id
    /\ passo2[1].subcategory_id = subcategories[1].id
    /\ resultado[1].subcategory_name = subcategories[1].name

====
